---- MODULE Spec2Model ----
(***************************************************************************)
(* Model of quantum_circuit/gates.py: the bit-index algebra (_clear_bits,  *)
(* _extract_sub_basis_state, _insert_sub_bit_superpos), the two Gate       *)
(* variants (FunctionalGate, MatrixGate), their composition, and the       *)
(* composite constructors multi_gate and controlled_u.                     *)
(*                                                                         *)
(* Every function of the module is pure; the state machine makes one call  *)
(* of a bit-index function, or constructs one gate and then evaluates it   *)
(* on one basis state, and records what was returned or raised and how     *)
(* often the sub-gate u and the closure _eval_bs were invoked by the step. *)
(*                                                                         *)
(* Python values are tagged records: [kind |-> "int"], [kind |-> "State"], *)
(* [kind |-> "ndarray"], [kind |-> "Gate"], [kind |-> "Error"].            *)
(* Amplitudes are exact numbers of the ring Z[sqrt 2][1/2], which holds    *)
(* 0, 1, -1 and 1/sqrt(2) and is closed under + and *.                     *)
(***************************************************************************)
EXTENDS Integers, Sequences, FiniteSets, TLC

VARIABLES
    pc,         \* "idle", "built" (a gate was constructed), "failed" (the
                \* construction raised), "done" (the call or eval_bs returned)
    op,         \* the function called or the constructor used
    args,       \* its arguments
    builtGate,  \* the gate object constructed, or None
    evalIndex,  \* the basis state eval_bs was called with
    ret,        \* what the call returned, or the exception it raised
    uCalls,     \* calls of u.eval_bs made by the last step
    evalCalls   \* calls of the closure _eval_bs made by the last step

vars == <<pc, op, args, builtGate, evalIndex, ret, uCalls, evalCalls>>

(***************************************************************************)
(* Bounds of the model.                                                    *)
(***************************************************************************)
\* largest register (qubit_count) the bit-index operations are run on
MaxQubits == 3
\* how far outside [0, basis_size) an index passed to eval_bs may lie
MaxOver == 2
\* largest register (qubit_count) a composite gate is built on
MaxRegister == 3
\* most control qubits listed for controlled_u
MaxControls == 2

Pow2(n) == 2 ^ n

Range(s) == {s[i] : i \in 1..Len(s)}

\* Python lists of qubit positions below n, of length at most len
QubitLists(n, len) == UNION {[1..l -> 0..(n - 1)] : l \in 0..len}

NoDup(s) == Cardinality(Range(s)) = Len(s)

RECURSIVE SumTo(_, _)
\* sum(f[i] for i in range(n)), f a function on 0..n-1
SumTo(f, n) == IF n = 0 THEN 0 ELSE SumTo(f, n - 1) + f[n - 1]

(***************************************************************************)
(* Python integers: << and & on unbounded two's-complement integers.       *)
(***************************************************************************)
Shl(i) == 2 ^ i

RECURSIVE BitAnd(_, _)
BitAnd(x, y) ==
    IF x = 0 \/ y = 0 THEN 0
    ELSE IF x = -1 THEN y
    ELSE IF y = -1 THEN x
    ELSE (x % 2) * (y % 2) + 2 * BitAnd(x \div 2, y \div 2)

\* value of bit q of the integer x (0 or 1)
BitOf(x, q) == (x \div Shl(q)) % 2

(***************************************************************************)
(* Amplitudes: (a + b * sqrt 2) / 2^d, kept in lowest terms.               *)
(***************************************************************************)
RECURSIVE Norm(_)
Norm(x) ==
    IF x.d > 0 /\ x.a % 2 = 0 /\ x.b % 2 = 0
    THEN Norm([a |-> x.a \div 2, b |-> x.b \div 2, d |-> x.d - 1])
    ELSE x

Num(a, b, d) == Norm([a |-> a, b |-> b, d |-> d])

Zero == Num(0, 0, 0)
One == Num(1, 0, 0)
MinusOne == Num(-1, 0, 0)
\* s2 = 1/sqrt(2) = sqrt(2)/2
S2 == Num(0, 1, 1)
MinusS2 == Num(0, -1, 1)

NumAdd(x, y) ==
    LET d == IF x.d > y.d THEN x.d ELSE y.d
    IN  Num(x.a * Pow2(d - x.d) + y.a * Pow2(d - y.d),
            x.b * Pow2(d - x.d) + y.b * Pow2(d - y.d), d)

NumMul(x, y) ==
    Num(x.a * y.a + 2 * x.b * y.b, x.a * y.b + x.b * y.a, x.d + y.d)

(***************************************************************************)
(* Values.                                                                 *)
(***************************************************************************)
IntVal(v) == [kind |-> "int", v |-> v]
Error(e) == [kind |-> "Error", err |-> e]
IsError(v) == v.kind = "Error"
None == [kind |-> "None"]

\* State(amplitudes): amplitudes is a function on 0..N-1
StateOf(amps) == [kind |-> "State", amplitudes |-> amps]
NdArray(amps) == [kind |-> "ndarray", amplitudes |-> amps]

\* len() of a vector stored as a function on 0..N-1
VLen(amps) == Cardinality(DOMAIN amps)

\* np.zeros(n)
Zeros(n) == [i \in 0..(n - 1) |-> Zero]

\* State.from_basis_state(basis_size, k): one unit amplitude at index k
from_basis_state(basis_size, k) ==
    StateOf([i \in 0..(basis_size - 1) |-> IF i = k THEN One ELSE Zero])

(***************************************************************************)
(* Bit-index algebra.                                                      *)
(***************************************************************************)
\* sum(1 << i for i in apply_qubits)
QubitMask(qubits) ==
    SumTo([i \in 0..(Len(qubits) - 1) |-> Shl(qubits[i + 1])], Len(qubits))

\* basis_state - sum(...) & basis_state : in Python "-" binds tighter than "&"
clear_bits(basis_state, apply_qubits) ==
    BitAnd(basis_state - QubitMask(apply_qubits), basis_state)

\* mutant: the listed qubits keep their global bit positions
Mut_extract_global_positions(basis_state, qubits) ==
    SumTo([i \in 0..(Len(qubits) - 1) |->
              IF BitAnd(basis_state, Shl(qubits[i + 1])) # 0
              THEN Shl(qubits[i + 1]) ELSE 0],
          Len(qubits))

extract_sub_basis_state(basis_state, qubits) ==
    SumTo([i \in 0..(Len(qubits) - 1) |->
              IF BitAnd(basis_state, Shl(qubits[i + 1])) # 0 THEN Shl(i) ELSE 0],
          Len(qubits))

\* (1 << i) & k != 0
is_set(i, k) == BitAnd(Shl(i), k) # 0

\* the global bits written for local index k: qubit i is set "if (i + 1) & k"
set_apply_of(k, apply_qubits) ==
    SumTo([i \in 0..(Len(apply_qubits) - 1) |->
              IF BitAnd(i + 1, k) # 0 THEN Shl(apply_qubits[i + 1]) ELSE 0],
          Len(apply_qubits))

RECURSIVE InsertLoop(_, _, _, _, _)
\* the loop "for k in range(len(insert_state))", from k on; out is either
\* the array so far or the IndexError of a store outside the array
InsertLoop(out, k, empty_apply, insert_state, apply_qubits) ==
    IF k >= VLen(insert_state) THEN StateOf(out)
    ELSE LET idx == set_apply_of(k, apply_qubits) + empty_apply
         IN  IF idx >= VLen(out) \/ idx < -VLen(out)
             THEN Error("IndexError")
             ELSE InsertLoop(
                    [out EXCEPT ![IF idx < 0 THEN idx + VLen(out) ELSE idx]
                                   = insert_state[k]],
                    k + 1, empty_apply, insert_state, apply_qubits)

insert_sub_bit_superpos(basis_size, state, insert_state, apply_qubits) ==
    InsertLoop(Zeros(basis_size), 0, clear_bits(state, apply_qubits),
               insert_state, apply_qubits)

(***************************************************************************)
(* Vectors and matrices (numpy arrays of amplitudes).                      *)
(***************************************************************************)
RECURSIVE NumSumTo(_, _)
NumSumTo(f, n) == IF n = 0 THEN Zero ELSE NumAdd(NumSumTo(f, n - 1), f[n - 1])

\* column k of a matrix stored by rows: matrix[:, k]
Column(matrix, k) == [r \in DOMAIN matrix |-> matrix[r][k]]

\* np.dot(matrix, vector); numpy raises ValueError when the shapes differ
MatVec(matrix, v) ==
    IF VLen(matrix) # VLen(v) THEN Error("ValueError")
    ELSE NdArray([r \in DOMAIN matrix |->
                     NumSumTo([c \in DOMAIN v |-> NumMul(matrix[r][c], v[c])],
                              VLen(v))])

\* np.dot(m1, m2) of two square matrices
MatMul(m1, m2) ==
    [r \in DOMAIN m1 |-> [c \in DOMAIN m2 |->
        NumSumTo([j \in DOMAIN m2 |-> NumMul(m1[r][j], m2[j][c])], VLen(m2))]]

\* scalar * State and State + State, as State supports superposition
VScale(c, amps) == [i \in DOMAIN amps |-> NumMul(c, amps[i])]
VAdd(x, y) == [i \in DOMAIN x |-> NumAdd(x[i], y[i])]

\* mul(iterator) over f[0..n-1]
RECURSIVE mul(_, _)
mul(f, n) == IF n = 0 THEN One ELSE NumMul(mul(f, n - 1), f[n - 1])

(***************************************************************************)
(* Gates.  A gate object is a record; the function a FunctionalGate wraps  *)
(* is a closure record naming the code of the closure and what it          *)
(* captured:                                                               *)
(*   "bound_eval_bs"  m.eval_bs of a MatrixGate m (a caller's function)    *)
(*   "mul_lambda"     lambda bs: self(gate2.eval_bs(bs))                   *)
(*   "controlled_u"   _eval_bs of controlled_u                             *)
(*   "multi_gate"     _eval_bs of multi_gate                               *)
(***************************************************************************)
MatrixGate(qubit_count, matrix) ==
    [kind |-> "Gate", variant |-> "MatrixGate", qubit_count |-> qubit_count,
     basis_size |-> Shl(qubit_count), matrix |-> matrix]

FunctionalGate(qubit_count, fn) ==
    [kind |-> "Gate", variant |-> "FunctionalGate", qubit_count |-> qubit_count,
     basis_size |-> Shl(qubit_count), fn |-> fn]

RECURSIVE eval_bs(_, _), call(_, _)

\* MatrixGate.eval_bs: self.matrix[:, basis_state]; numpy accepts the
\* indices -size..size-1 (negative ones count from the end) and raises
\* IndexError outside
\* mutant: a negative index is refused instead of counted from the end
Mut_MatrixGate_eval_bs_checked(self, basis_state) ==
    LET size == VLen(self.matrix)
    IN  IF basis_state >= size \/ basis_state < 0
        THEN Error("IndexError")
        ELSE StateOf(Column(self.matrix, basis_state))

MatrixGate_eval_bs(self, basis_state) ==
    LET size == VLen(self.matrix)
    IN  IF basis_state >= size \/ basis_state < -size
        THEN Error("IndexError")
        ELSE StateOf(Column(self.matrix, basis_state % size))

\* MatrixGate.__call__: np.dot(self.matrix, state.amplitudes); an int has
\* no attribute amplitudes
MatrixGate_call(self, state) ==
    IF state.kind = "int" THEN Error("AttributeError")
    ELSE MatVec(self.matrix, state.amplitudes)

\* state[k] of a State
StateIndex(state, k) ==
    IF k >= VLen(state.amplitudes) THEN Error("IndexError")
    ELSE [kind |-> "num", v |-> state.amplitudes[k]]

\* mutant: u is applied as soon as any control qubit is set
Mut_controlled_u_eval_bs_any(c, basis_state) ==
    IF BitAnd(basis_state, c.control_mask) = 0 /\ c.control_mask # 0
    THEN [val |-> from_basis_state(c.basis_size, basis_state), ucalls |-> 0]
    ELSE LET u_input_bs == extract_sub_basis_state(basis_state, c.apply_qubits)
             u_out_state == eval_bs(c.u, u_input_bs)
         IN  [val |-> IF IsError(u_out_state) THEN u_out_state
                      ELSE insert_sub_bit_superpos(
                               c.basis_size, basis_state,
                               u_out_state.amplitudes, c.apply_qubits),
              ucalls |-> 1]

\* the closure _eval_bs of controlled_u, with the number of u.eval_bs calls
controlled_u_eval_bs(c, basis_state) ==
    IF BitAnd(basis_state, c.control_mask) # c.control_mask
    THEN [val |-> from_basis_state(c.basis_size, basis_state), ucalls |-> 0]
    ELSE LET u_input_bs == extract_sub_basis_state(basis_state, c.apply_qubits)
             u_out_state == eval_bs(c.u, u_input_bs)
         IN  [val |-> IF IsError(u_out_state) THEN u_out_state
                      ELSE insert_sub_bit_superpos(
                               c.basis_size, basis_state,
                               u_out_state.amplitudes, c.apply_qubits),
              ucalls |-> 1]

RECURSIVE FirstError(_, _)
\* the first exception raised while a list (f on 0..n-1) is built, or None
FirstError(f, n) ==
    IF n = 0 THEN None
    ELSE LET e == FirstError(f, n - 1)
         IN  IF IsError(e) THEN e
             ELSE IF IsError(f[n - 1]) THEN f[n - 1] ELSE None

\* the closure _eval_bs of multi_gate
multi_gate_eval_bs(c, basis_state) ==
    LET n == Len(c.apply_qubits)
        out_states == [i \in 0..(n - 1) |->
            call(c.gate, IntVal(extract_sub_basis_state(
                                    basis_state, <<c.apply_qubits[i + 1]>>)))]
        failed == FirstError(out_states, n)
        out_state == [k \in 0..(Shl(n) - 1) |->
            mul([i \in 0..(n - 1) |->
                    out_states[i].amplitudes[IF is_set(i, k) THEN 1 ELSE 0]], n)]
    IN  IF IsError(failed) THEN failed
        ELSE insert_sub_bit_superpos(Shl(c.qubit_count), basis_state,
                                     out_state, c.apply_qubits)

\* lambda bs: self(gate2.eval_bs(bs)) of FunctionalGate.__mul__
mul_lambda(c, bs) ==
    LET inner == eval_bs(c.gate2, bs)
    IN  IF IsError(inner) THEN inner ELSE call(c.self, inner)

\* calling the wrapped function self._eval_bs
apply_fn(fn, basis_state) ==
    CASE fn.f = "bound_eval_bs" -> eval_bs(fn.gate, basis_state)
      [] fn.f = "mul_lambda" -> mul_lambda(fn, basis_state)
      [] fn.f = "controlled_u" -> controlled_u_eval_bs(fn, basis_state).val
      [] fn.f = "multi_gate" -> multi_gate_eval_bs(fn, basis_state)

\* FunctionalGate.eval_bs
FunctionalGate_eval_bs(self, basis_state) == apply_fn(self.fn, basis_state)

RECURSIVE FunctionalGate_sum(_, _, _, _)
\* sum(state[k] * self.eval_bs(k) for k in range(self.basis_size)), from k on
FunctionalGate_sum(self, state, k, acc) ==
    IF k >= self.basis_size THEN acc
    ELSE LET amp == StateIndex(state, k)
             img == eval_bs(self, k)
         IN  IF IsError(amp) THEN amp
             ELSE IF IsError(img) THEN img
             ELSE IF acc.kind = "State"
                     /\ VLen(acc.amplitudes) # VLen(img.amplitudes)
             THEN Error("ValueError")
             ELSE FunctionalGate_sum(self, state, k + 1,
                    StateOf(IF acc.kind = "State"
                            THEN VAdd(acc.amplitudes,
                                      VScale(amp.v, img.amplitudes))
                            ELSE VScale(amp.v, img.amplitudes)))

\* FunctionalGate.__call__; an int is not subscriptable
FunctionalGate_call(self, state) ==
    IF state.kind = "int" THEN Error("TypeError")
    ELSE FunctionalGate_sum(self, state, 0, None)

eval_bs(g, basis_state) ==
    IF g.variant = "MatrixGate" THEN MatrixGate_eval_bs(g, basis_state)
    ELSE FunctionalGate_eval_bs(g, basis_state)

call(g, state) ==
    IF g.variant = "MatrixGate" THEN MatrixGate_call(g, state)
    ELSE FunctionalGate_call(g, state)

(***************************************************************************)
(* Composition.                                                            *)
(***************************************************************************)
\* mutant: composition checks the operands' qubit_count
Mut_FunctionalGate_mul_checked(self, gate2) ==
    IF self.qubit_count # gate2.qubit_count THEN Error("DimensionMismatch")
    ELSE FunctionalGate(self.qubit_count,
                        [f |-> "mul_lambda", self |-> self, gate2 |-> gate2])

\* FunctionalGate.__mul__
FunctionalGate_mul(self, gate2) ==
    FunctionalGate(self.qubit_count,
                   [f |-> "mul_lambda", self |-> self, gate2 |-> gate2])

\* MatrixGate.__mul__
MatrixGate_mul(self, gate2) ==
    IF gate2.variant # "MatrixGate" THEN FunctionalGate_mul(gate2, self)
    ELSE IF VLen(self.matrix) # VLen(gate2.matrix) THEN Error("ValueError")
    ELSE MatrixGate(self.qubit_count, MatMul(self.matrix, gate2.matrix))

\* g1 * g2
gate_mul(g1, g2) ==
    IF g1.variant = "MatrixGate" THEN MatrixGate_mul(g1, g2)
    ELSE FunctionalGate_mul(g1, g2)

(***************************************************************************)
(* Factories.  A construction returns [val, ucalls, evalcalls]: the gate   *)
(* or the exception, and how often u.eval_bs and the closure were invoked. *)
(***************************************************************************)
FunctionalGate_from_eval_bs(qubit_count, fn) ==
    [val |-> FunctionalGate(qubit_count, fn), ucalls |-> 0, evalcalls |-> 0]

\* one call of the closure, with the number of u.eval_bs calls it makes
CountedApply(fn, bs) ==
    IF fn.f = "controlled_u" THEN controlled_u_eval_bs(fn, bs)
    ELSE [val |-> apply_fn(fn, bs), ucalls |-> 0]

RECURSIVE MatrixGate_fill(_, _, _, _, _, _)
\* the loop "for bs in range(basis_size): mat[:, bs] = _eval_bs(bs).amplitudes"
MatrixGate_fill(qubit_count, fn, bs, mat, ucalls, evalcalls) ==
    IF bs >= Shl(qubit_count)
    THEN [val |-> MatrixGate(qubit_count, mat), ucalls |-> ucalls,
          evalcalls |-> evalcalls]
    ELSE LET r == CountedApply(fn, bs)
         IN  IF IsError(r.val)
             THEN [val |-> r.val, ucalls |-> ucalls + r.ucalls,
                   evalcalls |-> evalcalls + 1]
             ELSE IF VLen(r.val.amplitudes) # Shl(qubit_count)
             THEN [val |-> Error("ValueError"), ucalls |-> ucalls + r.ucalls,
                   evalcalls |-> evalcalls + 1]
             ELSE MatrixGate_fill(qubit_count, fn, bs + 1,
                    [row \in DOMAIN mat |->
                        [mat[row] EXCEPT ![bs] = r.val.amplitudes[row]]],
                    ucalls + r.ucalls, evalcalls + 1)

MatrixGate_from_eval_bs(qubit_count, fn) ==
    MatrixGate_fill(qubit_count, fn, 0,
                    [r \in 0..(Shl(qubit_count) - 1) |-> Zeros(Shl(qubit_count))],
                    0, 0)

\* cls.from_eval_bs; the base class Gate uses FunctionalGate
from_eval_bs(cls, qubit_count, fn) ==
    IF cls = "MatrixGate" THEN MatrixGate_from_eval_bs(qubit_count, fn)
    ELSE FunctionalGate_from_eval_bs(qubit_count, fn)

multi_gate(cls, qubit_count, gate, apply_qubits) ==
    from_eval_bs(cls, qubit_count,
                 [f |-> "multi_gate", qubit_count |-> qubit_count,
                  gate |-> gate, apply_qubits |-> apply_qubits])

\* mutant: the two lists are not checked against each other
Mut_controlled_u_asserts_no_disjoint(apply_qubits, control_qubits) ==
    /\ Cardinality(Range(control_qubits)) = Len(control_qubits)
    /\ Cardinality(Range(apply_qubits)) = Len(apply_qubits)

\* the three asserts at the head of controlled_u
controlled_u_asserts(apply_qubits, control_qubits) ==
    /\ Cardinality(Range(control_qubits)) = Len(control_qubits)
    /\ Cardinality(Range(apply_qubits)) = Len(apply_qubits)
    /\ Range(control_qubits) \cap Range(apply_qubits) = {}

controlled_u(cls, qubit_count, u, apply_qubits, control_qubits) ==
    IF ~controlled_u_asserts(apply_qubits, control_qubits)
    THEN [val |-> Error("AssertionError"), ucalls |-> 0, evalcalls |-> 0]
    ELSE from_eval_bs(cls, qubit_count,
                      [f |-> "controlled_u", u |-> u,
                       apply_qubits |-> apply_qubits,
                       control_qubits |-> control_qubits,
                       basis_size |-> Shl(qubit_count),
                       control_mask |-> QubitMask(control_qubits)])

(***************************************************************************)
(* Inputs: the gates a caller supplies.                                    *)
(***************************************************************************)
\* the local vector with a single 1 at index j
UnitVec(n, j) == [i \in 0..(n - 1) |-> IF i = j THEN One ELSE Zero]

\* a matrix from its rows, indices from 0
FromRows(rows) ==
    [r \in 0..(Len(rows) - 1) |->
        [c \in 0..(Len(rows) - 1) |-> rows[r + 1][c + 1]]]

XMat == FromRows(<< <<Zero, One>>, <<One, Zero>> >>)
ZMat == FromRows(<< <<One, Zero>>, <<Zero, MinusOne>> >>)
HMat == FromRows(<< <<S2, S2>>, <<S2, MinusS2>> >>)
\* on two qubits: flip qubit 1 when qubit 0 is set; exchange the two qubits
CXMat == FromRows(<< <<One, Zero, Zero, Zero>>, <<Zero, Zero, Zero, One>>,
                     <<Zero, Zero, One, Zero>>, <<Zero, One, Zero, Zero>> >>)
HIMat == FromRows(<< <<S2, S2, Zero, Zero>>, <<S2, MinusS2, Zero, Zero>>,
                     <<Zero, Zero, S2, S2>>, <<Zero, Zero, S2, MinusS2>> >>)

MatrixGates ==
    {MatrixGate(1, XMat), MatrixGate(1, ZMat), MatrixGate(1, HMat),
     MatrixGate(2, CXMat), MatrixGate(2, HIMat)}

\* FunctionalGate(qubit_count, m.eval_bs): the same operator, held as a function
AsFunctional(m) ==
    FunctionalGate(m.qubit_count, [f |-> "bound_eval_bs", gate |-> m])

FunctionalGates == {AsFunctional(m) : m \in MatrixGates}

Hadamard == MatrixGate(1, HMat)

\* the list [0, 1, ..., n-1]
Iota(n) == [i \in 1..n |-> i - 1]

(***************************************************************************)
(* The state machine.                                                      *)
(***************************************************************************)
Init ==
    /\ pc = "idle"
    /\ op = "none"
    /\ args = None
    /\ builtGate = None
    /\ evalIndex = 0
    /\ ret = None
    /\ uCalls = 0
    /\ evalCalls = 0

\* a call of a bit-index function returned r
Returned(name, a, r) ==
    /\ pc' = "done"
    /\ op' = name
    /\ args' = a
    /\ ret' = r
    /\ UNCHANGED <<builtGate, evalIndex, uCalls, evalCalls>>

\* a constructor returned c = [val, ucalls, evalcalls]
Constructed(name, a, c) ==
    /\ op' = name
    /\ args' = a
    /\ uCalls' = c.ucalls
    /\ evalCalls' = c.evalcalls
    /\ IF IsError(c.val)
       THEN pc' = "failed" /\ ret' = c.val /\ builtGate' = builtGate
       ELSE pc' = "built" /\ builtGate' = c.val /\ ret' = ret
    /\ UNCHANGED evalIndex

CallClearBits ==
    /\ pc = "idle"
    /\ \E bs \in 0..(Pow2(MaxQubits) - 1), qs \in QubitLists(MaxQubits, MaxQubits) :
         /\ NoDup(qs)
         /\ Returned("clear_bits", [basis_state |-> bs, qubits |-> qs],
                     IntVal(clear_bits(bs, qs)))

CallExtract ==
    /\ pc = "idle"
    /\ \E bs \in 0..(Pow2(MaxQubits) - 1), qs \in QubitLists(MaxQubits, MaxQubits) :
           Returned("extract_sub_basis_state", [basis_state |-> bs, qubits |-> qs],
                    IntVal(extract_sub_basis_state(bs, qs)))

CallInsert ==
    /\ pc = "idle"
    /\ \E n \in 0..MaxQubits :
         \E bs \in 0..(Pow2(n) - 1), qs \in QubitLists(n, n) :
           \E j \in 0..(Pow2(Len(qs)) - 1) :
             /\ NoDup(qs)
             /\ Returned("insert_sub_bit_superpos",
                         [qubit_count |-> n, basis_state |-> bs, qubits |-> qs,
                          local |-> j],
                         insert_sub_bit_superpos(Pow2(n), bs,
                                                 UnitVec(Pow2(Len(qs)), j), qs))

\* a caller's own gate, in either variant
BuildGate ==
    /\ pc = "idle"
    /\ \E g \in MatrixGates \cup FunctionalGates :
           Constructed("gate", [g |-> g],
                       [val |-> g, ucalls |-> 0, evalcalls |-> 0])

\* g1 * g2
BuildMul ==
    /\ pc = "idle"
    /\ \E g1 \in MatrixGates \cup FunctionalGates,
          g2 \in MatrixGates \cup FunctionalGates :
           Constructed("mul", [g1 |-> g1, g2 |-> g2],
                       [val |-> gate_mul(g1, g2), ucalls |-> 0, evalcalls |-> 0])

\* cls.controlled_u(qubit_count, u, apply_qubits, control_qubits)
BuildControlledU ==
    /\ pc = "idle"
    /\ \E cls \in {"FunctionalGate", "MatrixGate"}, n \in 1..MaxRegister,
          u \in MatrixGates \cup {AsFunctional(Hadamard)} :
         \E aq \in QubitLists(n, u.qubit_count), cq \in QubitLists(n, MaxControls) :
           /\ Len(aq) = u.qubit_count
           /\ Constructed("controlled_u",
                          [cls |-> cls, qubit_count |-> n, u |-> u,
                           apply_qubits |-> aq, control_qubits |-> cq],
                          controlled_u(cls, n, u, aq, cq))

\* cls.multi_gate(qubit_count, H, [0, ..., m-1])
BuildMultiGate ==
    /\ pc = "idle"
    /\ \E cls \in {"FunctionalGate", "MatrixGate"}, n \in 0..MaxRegister,
          g \in {Hadamard, AsFunctional(Hadamard)} :
         \E m \in 0..n :
           Constructed("multi_gate",
                       [cls |-> cls, qubit_count |-> n, gate |-> g,
                        apply_qubits |-> Iota(m)],
                       multi_gate(cls, n, g, Iota(m)))

\* the indices eval_bs is called with: the basis states of the gate, and
\* for a caller's own gate also indices outside [0, basis_size)
EvalIndices ==
    IF op = "gate"
    THEN (-(builtGate.basis_size + MaxOver))..(builtGate.basis_size + MaxOver - 1)
    ELSE 0..(builtGate.basis_size - 1)

\* builtGate.eval_bs(i) on the builtGate constructed
EvalBs ==
    /\ pc = "built"
    /\ \E i \in EvalIndices :
        LET r == IF builtGate.variant = "FunctionalGate"
                 THEN CountedApply(builtGate.fn, i)
                 ELSE [val |-> eval_bs(builtGate, i), ucalls |-> 0]
        IN  /\ evalIndex' = i
            /\ ret' = eval_bs(builtGate, i)
            /\ uCalls' = r.ucalls
            /\ evalCalls' = IF builtGate.variant = "FunctionalGate" THEN 1 ELSE 0
    /\ pc' = "done"
    /\ UNCHANGED <<op, args, builtGate>>

Next ==
    \/ CallClearBits
    \/ CallExtract
    \/ CallInsert
    \/ BuildGate
    \/ BuildMul
    \/ BuildControlledU
    \/ BuildMultiGate
    \/ EvalBs

Spec == Init /\ [][Next]_vars


(***************************************************************************)
(* Claims.                                                                 *)
(***************************************************************************)
OutOfRange == evalIndex < 0 \/ evalIndex >= builtGate.basis_size

\* C1: for gates g1, g2 of the same qubit_count, in every combination of
\* variants, (g1 * g2).eval_bs(k) equals g1.apply(g2.eval_bs(k)): g2 is
\* applied first and g1 second.
C1_ComposeAppliesRightOperandFirst ==
    (/\ pc = "done"
     /\ op = "mul"
     /\ args.g1.qubit_count = args.g2.qubit_count)
        => LET expected == call(args.g1, eval_bs(args.g2, evalIndex))
           IN  /\ ret.kind = "State"
               /\ ret.amplitudes = expected.amplitudes

\* the matrix of the controlled_u docstring
DocMatrix ==
    FromRows(<< <<One, Zero, Zero, Zero, Zero, Zero, Zero, Zero>>,
                <<Zero, S2, Zero, S2, Zero, Zero, Zero, Zero>>,
                <<Zero, Zero, One, Zero, Zero, Zero, Zero, Zero>>,
                <<Zero, S2, Zero, MinusS2, Zero, Zero, Zero, Zero>>,
                <<Zero, Zero, Zero, Zero, One, Zero, Zero, Zero>>,
                <<Zero, Zero, Zero, Zero, Zero, S2, Zero, S2>>,
                <<Zero, Zero, Zero, Zero, Zero, Zero, One, Zero>>,
                <<Zero, Zero, Zero, Zero, Zero, S2, Zero, MinusS2>> >>)

\* C2: controlled_u(3, Hadamard, [1], [0]) maps every basis state k in 0..7
\* to column k of the 8x8 matrix of the docstring.
C2_ControlledHadamardMatchesDocstring ==
    (/\ op = "controlled_u"
     /\ args.qubit_count = 3
     /\ args.u.qubit_count = 1
     /\ eval_bs(args.u, 0).amplitudes = Column(HMat, 0)
     /\ eval_bs(args.u, 1).amplitudes = Column(HMat, 1)
     /\ args.apply_qubits = <<1>>
     /\ args.control_qubits = <<0>>)
        => /\ pc # "failed"
           /\ pc = "done" => ret = StateOf(Column(DocMatrix, evalIndex))

RECURSIVE PopCount(_)
PopCount(x) == IF x = 0 THEN 0 ELSE (x % 2) + PopCount(x \div 2)

\* entry (r, c) of the n-fold Kronecker product of the Hadamard matrix
KronH(n, r, c) ==
    LET mag == mul([i \in 0..(n - 1) |-> S2], n)
    IN  IF PopCount(BitAnd(r, c)) % 2 = 0 THEN mag ELSE NumMul(MinusOne, mag)

\* C3: for n = 2 and n = 3, multi_gate(n, H, [0, ..., n-1]) evaluates on
\* every basis state k and eval_bs(k) is column k of the n-fold Kronecker
\* product of the Hadamard matrix.
C3_MultiGateHadamardIsKronecker ==
    (/\ op = "multi_gate"
     /\ args.qubit_count \in {2, 3}
     /\ args.apply_qubits = Iota(args.qubit_count))
        => /\ pc # "failed"
           /\ pc = "done" =>
                ret = StateOf([r \in 0..(Shl(args.qubit_count) - 1) |->
                                  KronH(args.qubit_count, r, evalIndex)])

\* C4: scattering the unit local vector at the extracted local index back
\* with _insert_sub_bit_superpos returns the basis State of bs.
C4_InsertExtractRoundTrip ==
    (/\ op = "insert_sub_bit_superpos"
     /\ args.local = extract_sub_basis_state(args.basis_state, args.qubits))
        => ret = from_basis_state(Pow2(args.qubit_count), args.basis_state)

\* some qubit of control_qubits is 0 in the basis state bs
SomeControlClear(control_qubits, bs) ==
    \E i \in 1..Len(control_qubits) : BitOf(bs, control_qubits[i]) = 0

\* C5: on a basis state in which some control qubit is 0, a gate built by
\* controlled_u returns that basis state unchanged and does not invoke
\* u.eval_bs.
C5_UnsatisfiedControlIsIdentityWithoutU ==
    (/\ pc = "done"
     /\ op = "controlled_u"
     /\ SomeControlClear(args.control_qubits, evalIndex))
        => /\ ret = from_basis_state(Shl(args.qubit_count), evalIndex)
           /\ uCalls = 0

\* C5 witness: controls [0, 2], basis state 1 (qubit 0 set, qubit 2 clear),
\* evaluated through the closure.
C5_Witness ==
    /\ pc = "done"
    /\ op = "controlled_u"
    /\ args.cls = "FunctionalGate"
    /\ args.control_qubits = <<0, 2>>
    /\ args.apply_qubits = <<1>>
    /\ evalIndex = 1
    /\ ret = from_basis_state(8, 1)

\* C6: controlled_u fails at construction, returning no gate and invoking
\* neither u nor the closure, when control_qubits or apply_qubits holds a
\* duplicate or the two lists share a qubit, in both variants.
C6_InvalidQubitListsFailAtConstruction ==
    (/\ op = "controlled_u"
     /\ \/ ~NoDup(args.control_qubits)
        \/ ~NoDup(args.apply_qubits)
        \/ Range(args.control_qubits) \cap Range(args.apply_qubits) # {})
        => /\ pc = "failed"
           /\ IsError(ret)
           /\ builtGate = None
           /\ uCalls = 0
           /\ evalCalls = 0

\* C6 witness: MatrixGate.controlled_u with qubit 0 both applied to and
\* controlling.
C6_Witness ==
    /\ op = "controlled_u"
    /\ args.cls = "MatrixGate"
    /\ args.apply_qubits = <<0>>
    /\ args.control_qubits = <<1, 0>>
    /\ pc = "failed"
    /\ ret = Error("AssertionError")

\* C7: composing two gates of different qubit_count fails at the
\* composition call in every combination of variants; no gate is returned.
C7_MismatchedComposeFails ==
    (/\ op = "mul"
     /\ args.g1.qubit_count # args.g2.qubit_count)
        => /\ pc = "failed"
           /\ builtGate = None

\* C7 as amended: composing two gates of different qubit_count fails at the
\* composition call only when both are MatrixGates (the matrix product
\* refuses the shapes); when either is a FunctionalGate nothing is checked
\* and a FunctionalGate is returned.
C7_MismatchedComposeFailsOnlyForMatrices ==
    (/\ op = "mul"
     /\ args.g1.qubit_count # args.g2.qubit_count)
        => IF args.g1.variant = "MatrixGate" /\ args.g2.variant = "MatrixGate"
           THEN /\ pc = "failed"
                /\ ret = Error("ValueError")
                /\ builtGate = None
           ELSE /\ pc \in {"built", "done"}
                /\ builtGate.kind = "Gate"
                /\ builtGate.variant = "FunctionalGate"

\* C7 witness: a one-qubit FunctionalGate times a two-qubit MatrixGate was
\* built and evaluated to a State.
C7_Witness ==
    /\ pc = "done"
    /\ op = "mul"
    /\ args.g1.variant = "FunctionalGate"
    /\ args.g1.qubit_count = 1
    /\ args.g2.variant = "MatrixGate"
    /\ args.g2.qubit_count = 2
    /\ ret.kind = "State"

\* C8: eval_bs(k) fails for every gate and every k outside [0, basis_size),
\* negative k included, and never returns a State.
C8_OutOfRangeEvalFails ==
    (/\ pc = "done"
     /\ op = "gate"
     /\ OutOfRange)
        => IsError(ret)

\* C8 as amended: MatrixGate.eval_bs(k) fails for k >= basis_size and for
\* k < -basis_size, and for -basis_size <= k < 0 returns column
\* k + basis_size; FunctionalGate.eval_bs checks nothing and returns what
\* the wrapped function returns for k.
C8_OutOfRangeEvalWrapsNegative ==
    (/\ pc = "done"
     /\ op = "gate"
     /\ OutOfRange)
        => LET size == builtGate.basis_size
               m == IF builtGate.variant = "MatrixGate" THEN builtGate
                    ELSE builtGate.fn.gate
           IN  IF evalIndex >= size \/ evalIndex < -size
               THEN ret = Error("IndexError")
               ELSE ret = StateOf(Column(m.matrix, evalIndex + size))

\* C8 witness: a MatrixGate evaluated at -1 returned its last column.
C8_Witness ==
    /\ pc = "done"
    /\ op = "gate"
    /\ builtGate.variant = "MatrixGate"
    /\ evalIndex = -1
    /\ ret = StateOf(Column(builtGate.matrix, builtGate.basis_size - 1))

\* bs AND NOT mask, bit by bit
ClearedExpected(bs, qs) ==
    SumTo([q \in 0..MaxQubits |->
              IF q \in Range(qs) THEN 0 ELSE BitOf(bs, q) * Shl(q)],
          MaxQubits + 1)

\* C9: _clear_bits(bs, qubits) returns bs with every bit at a position in
\* qubits forced to 0 and every other bit unchanged, whether or not those
\* bits were set in bs.
C9_ClearBitsClearsListedBits ==
    op = "clear_bits" =>
        ret.v = ClearedExpected(args.basis_state, args.qubits)

\* C10: bit i of _extract_sub_basis_state(bs, qubits) equals bit qubits[i]
\* of bs for every i < len(qubits), all higher bits are 0, and the empty
\* list gives 0.
C10_ExtractFollowsListOrder ==
    op = "extract_sub_basis_state" =>
        /\ \A i \in 0..(Len(args.qubits) - 1) :
              BitOf(ret.v, i) = BitOf(args.basis_state, args.qubits[i + 1])
        /\ ret.v >= 0
        /\ ret.v < Pow2(Len(args.qubits))
        /\ (args.qubits = <<>> => ret.v = 0)

\* C10 witness: qubits = [2, 1] on a basis state with bit 2 set and bit 1
\* clear makes qubit 2 the least-significant local bit, result 1.
C10_Witness ==
    /\ op = "extract_sub_basis_state"
    /\ args.qubits = <<2, 1>>
    /\ args.basis_state = 4
    /\ ret.v = 1

====
